---- MODULE Spec2Model ----
(***************************************************************************)
(* Model of the GISIB/BGT reconciliation pipeline: the overlap engine and  *)
(* bucket waterfall of matchers/matcher_base.py (with the pavement variant *)
(* of matchers/matcher_verhardingsobjecten.py) and the bucket-to-action    *)
(* processor of bucket_processor.py.                                       *)
(*                                                                         *)
(* Geometry is abstracted to areas: every GISIB and BGT polygon has an     *)
(* area, and every (GISIB, BGT) pair has the area of its intersection      *)
(* (0 = the polygons do not intersect).  Overlap ratios are the exact      *)
(* fractions intersection area / polygon area, kept as numerator and       *)
(* denominator; a threshold literal such as 0.75 is the fraction 75/100.   *)
(* A dataframe is a sequence of rows (row order is part of the model);     *)
(* attribute columns that the overlay copies from the two inputs are read  *)
(* from the input tables by id.  pandas' sort_values is modelled as a      *)
(* stable sort.  A nullable elevation is a sequence of length 0 (null) or  *)
(* 1 (a value).                                                            *)
(***************************************************************************)
EXTENDS Integers, Sequences, FiniteSets, TLC

VARIABLES
    gisib_gdf,        \* GUID -> source feature (constructor argument gisib_gdf)
    bgt_gdf,          \* LOKAALID -> target feature (constructor argument bgt_gdf)
    overlay_area,     \* <<GUID, LOKAALID>> -> area of the geometric intersection
    matcher,          \* which matcher class runs: "base" or "vrh"
    pc,               \* position in run() / process_and_export_per_asset_mode()
    intersection_df,  \* output of preprocess()
    remaining,        \* the shrinking remaining frame of run()
    buckets,          \* the locals bucket0 .. bucket7 of run()
    stage_in,         \* history: the frame each stage received as its input
    result,           \* the dict returned by run(): sequence of <<name, frame>>
    export,           \* what process_and_export_per_asset_mode computed
    controller        \* Controller.create_buckets(): its loop and its dict

vars == <<gisib_gdf, bgt_gdf, overlay_area, matcher, pc, intersection_df,
          remaining, buckets, stage_in, result, export, controller>>

(***************************************************************************)
(* Bounds of the model and program constants.                              *)
(***************************************************************************)
\* Highest elevation level that occurs in the inputs (levels are 0..MaxLevel or null).
MaxLevel == 1
\* Size of the pool uuid.uuid4() draws from.
MaxUuids == 3

MIN_RATIO == 10
SUM_MIN_RATIO == 60
PERFECT_MATCH_RATIO == 90
GEOM_1_TO_1_RATIO == 75
BAND_LOW == 90
BAND_HIGH == 110
GEOM_MATCH_RATIO == 75
CLIP_BGT_RATIO == 50
CLIP_GISIB_RATIO == 85
OVERLAP_SUM_RATIO == 150
HAAG_RATIO == 90

GisibOrder == <<"g1", "g2">>
BgtOrder == <<"b1", "b2">>
GUIDS == {GisibOrder[i] : i \in 1..Len(GisibOrder)}
LOKAALIDS == {BgtOrder[i] : i \in 1..Len(BgtOrder)}

SKIP_TYPES == {"Rietland", "Moeras"}

GisibAreas == {5, 13}
Bgt1Areas == {5, 8, 11}
Bgt2Areas == {5, 8}

Null == <<>>
Level(n) == <<n>>
Levels == {Null} \cup {Level(n) : n \in 1..MaxLevel}
\* Elevations tried for the two target features.
Bgt1Levels == {Null, Level(0)}
Bgt2Levels == {Level(n) : n \in 0..MaxLevel}

\* Attribute profiles of a source feature: TYPE and the three merge attributes.
PlainProfile ==
    [TYPE |-> "Gras", ONDERHOUDSPLICHTIGE |-> "gemeente",
     TYPE_GEDETAILLEERD |-> "gazon", BEHEERDER_GEDETAILLEERD |-> "wijk1"]
GisibProfiles ==
    {PlainProfile,
     [PlainProfile EXCEPT !.ONDERHOUDSPLICHTIGE = "provincie"],
     [PlainProfile EXCEPT !.TYPE_GEDETAILLEERD = "bloemrijk"],
     [PlainProfile EXCEPT !.BEHEERDER_GEDETAILLEERD = "wijk2"],
     [PlainProfile EXCEPT !.TYPE = "Rietland"]}

GisibFeature(a, h, p) ==
    [area |-> a, hl |-> h, TYPE |-> p.TYPE,
     ONDERHOUDSPLICHTIGE |-> p.ONDERHOUDSPLICHTIGE,
     TYPE_GEDETAILLEERD |-> p.TYPE_GEDETAILLEERD,
     BEHEERDER_GEDETAILLEERD |-> p.BEHEERDER_GEDETAILLEERD]

BgtFeature(a, h, t) == [area |-> a, hl |-> h, ObjectType |-> t]

\* Values of the BGT column ObjectType.
ObjectTypes == {"Vegetatieobject", "Grasland"}

Min(a, b) == IF a <= b THEN a ELSE b

\* Intersection areas tried for a pair: disjoint, a sliver, or the smaller
\* polygon lying wholly inside the larger one.
InterChoices(ag, ab) == {0, 1, Min(ag, ab)}

\* the matcher classes: MatcherBase as it stands, VerhardingenMatcher, GroenobjectenMatcher
Matchers == {"base", "vrh"}
AllMatchers == {"base", "vrh", "groen"}

(***************************************************************************)
(* Sequences and exact fractions.                                          *)
(***************************************************************************)
Range(s) == {s[i] : i \in 1..Len(s)}

Ids(df) == {df[i].GUID : i \in 1..Len(df)}

Ratio(num, den) == [n |-> num, d |-> den]

\* r > p/100, r >= p/100, r < p/100
Gt(r, p) == r.n * 100 > p * r.d
Ge(r, p) == r.n * 100 >= p * r.d
Lt(r, p) == r.n * 100 < p * r.d

Plus(r, s) == [n |-> r.n * s.d + s.n * r.d, d |-> r.d * s.d]

RECURSIVE SumRatio(_)
SumRatio(rs) ==
    IF Len(rs) = 0 THEN Ratio(0, 1) ELSE Plus(rs[1], SumRatio(Tail(rs)))

\* the mean of the ratios rs: their sum over their number
MeanRatio(rs) == LET s == SumRatio(rs) IN Ratio(s.n, s.d * Len(rs))

\* fillna(0).astype(int) of an elevation column
FillNa0(h) == IF h = Null THEN 0 ELSE h[1]

(***************************************************************************)
(* MatcherBase.__init__ and the overlap engine.                            *)
(***************************************************************************)
\* self.gisib without the skip-type filter of the constructor
SelfGisib_unfiltered(g_gdf) == GisibOrder

\* self.gisib: the source rows whose TYPE is not a skip type, in input order
SelfGisib(g_gdf) ==
    SelectSeq(GisibOrder, LAMBDA g : g_gdf[g].TYPE \notin SKIP_TYPES)

\* all (GUID, LOKAALID) pairs in the order the overlay emits them
PairOrder ==
    [i \in 1..(Len(GisibOrder) * Len(BgtOrder)) |->
        <<GisibOrder[((i - 1) \div Len(BgtOrder)) + 1],
          BgtOrder[((i - 1) % Len(BgtOrder)) + 1]>>]

OverlayRow(g, b, g_gdf, b_gdf, inter) ==
    [GUID |-> g, LOKAALID |-> b, area |-> inter[<<g, b>>],
     overlap_bgt |-> Ratio(inter[<<g, b>>], b_gdf[b].area),
     overlap_gisib |-> Ratio(inter[<<g, b>>], g_gdf[g].area),
     guids_per_lokaalid |-> 0, lokaalids_per_guid |-> 0,
     perfect_match |-> FALSE, rel_match |-> FALSE]

calculate_overlap_df(g_gdf, b_gdf, inter) ==
    LET pairs == SelectSeq(PairOrder,
                    LAMBDA p : /\ p[1] \in Range(SelfGisib(g_gdf))
                               /\ inter[p] > 0)
    IN [i \in 1..Len(pairs) |->
            OverlayRow(pairs[i][1], pairs[i][2], g_gdf, b_gdf, inter)]

\* filter_overlap_min_ratio that also keeps a ratio sum of exactly 0.60
filter_overlap_min_ratio_sum_inclusive(overlap_df) ==
    SelectSeq(overlap_df,
        LAMBDA r : /\ \/ Ge(r.overlap_bgt, MIN_RATIO)
                      \/ Ge(r.overlap_gisib, MIN_RATIO)
                   /\ Ge(Plus(r.overlap_bgt, r.overlap_gisib), SUM_MIN_RATIO))

filter_overlap_min_ratio(overlap_df) ==
    SelectSeq(overlap_df,
        LAMBDA r : /\ \/ Ge(r.overlap_bgt, MIN_RATIO)
                      \/ Ge(r.overlap_gisib, MIN_RATIO)
                   /\ Gt(Plus(r.overlap_bgt, r.overlap_gisib), SUM_MIN_RATIO))

\* the flags with an inclusive perfect-match threshold (ratio >= 0.90)
_add_match_flags_inclusive(df, g_gdf, b_gdf) ==
    [i \in 1..Len(df) |->
        [df[i] EXCEPT
            !.perfect_match = /\ Ge(df[i].overlap_bgt, PERFECT_MATCH_RATIO)
                              /\ Ge(df[i].overlap_gisib, PERFECT_MATCH_RATIO),
            !.rel_match = (FillNa0(g_gdf[df[i].GUID].hl)
                             = FillNa0(b_gdf[df[i].LOKAALID].hl))]]

_add_match_flags(df, g_gdf, b_gdf) ==
    [i \in 1..Len(df) |->
        [df[i] EXCEPT
            !.perfect_match = /\ Gt(df[i].overlap_bgt, PERFECT_MATCH_RATIO)
                              /\ Gt(df[i].overlap_gisib, PERFECT_MATCH_RATIO),
            !.rel_match = (FillNa0(g_gdf[df[i].GUID].hl)
                             = FillNa0(b_gdf[df[i].LOKAALID].hl))]]

\* only the rows where both perfect_match and rel_match hold
get_perfect_rel_matches_both_only(filtered_df, g_gdf, b_gdf) ==
    SelectSeq(_add_match_flags(filtered_df, g_gdf, b_gdf),
              LAMBDA r : r.perfect_match /\ r.rel_match)

get_perfect_rel_matches(filtered_df, g_gdf, b_gdf) ==
    LET df == _add_match_flags(filtered_df, g_gdf, b_gdf)
        perfect_rel(r) == r.perfect_match /\ r.rel_match
        guids_with_perfect_rel == {r.GUID : r \in {x \in Range(df) : perfect_rel(x)}}
        subset1 == SelectSeq(df, LAMBDA r : perfect_rel(r) /\ r.GUID \in guids_with_perfect_rel)
        subset2 == SelectSeq(df, LAMBDA r : r.GUID \notin guids_with_perfect_rel)
        merged_df == subset1 \o subset2
        guids_multi_rel ==
            {g \in Ids(merged_df) :
                Cardinality({r.rel_match : r \in {x \in Range(merged_df) : x.GUID = g}}) = 2}
        subset3 == SelectSeq(merged_df, LAMBDA r : r.GUID \in guids_multi_rel /\ r.perfect_match)
        rest == SelectSeq(merged_df, LAMBDA r : r.GUID \notin Ids(subset3))
    IN subset3 \o rest

add_intersection_counts(overlaps) ==
    [i \in 1..Len(overlaps) |->
        [overlaps[i] EXCEPT
            !.guids_per_lokaalid =
                Cardinality({r.GUID : r \in {x \in Range(overlaps) :
                                                x.LOKAALID = overlaps[i].LOKAALID}}),
            !.lokaalids_per_guid =
                Cardinality({r.LOKAALID : r \in {x \in Range(overlaps) :
                                                x.GUID = overlaps[i].GUID}})]]

preprocess(g_gdf, b_gdf, inter) ==
    LET overlay == calculate_overlap_df(g_gdf, b_gdf, inter)
        filtered == filter_overlap_min_ratio(overlay)
        with_counts == add_intersection_counts(filtered)
    IN get_perfect_rel_matches(with_counts, g_gdf, b_gdf)

(***************************************************************************)
(* GroenobjectenMatcher: the hedge filter between the ratio filter and the *)
(* intersection counts.                                                    *)
(***************************************************************************)
filter_hagen(df, g_gdf, b_gdf) ==
    LET hagen_intersection_df ==
            SelectSeq(df, LAMBDA r : /\ g_gdf[r.GUID].TYPE = "Haag"
                                     /\ Gt(r.overlap_gisib, HAAG_RATIO)
                                     /\ b_gdf[r.LOKAALID].ObjectType = "Vegetatieobject")
    IN SelectSeq(df, LAMBDA r : r.GUID \notin Ids(hagen_intersection_df))
           \o hagen_intersection_df

GroenobjectenMatcher_preprocess(g_gdf, b_gdf, inter) ==
    LET overlay == calculate_overlap_df(g_gdf, b_gdf, inter)
        filtered == filter_overlap_min_ratio(overlay)
        filtered_hagen == filter_hagen(filtered, g_gdf, b_gdf)
        with_counts == add_intersection_counts(filtered_hagen)
    IN get_perfect_rel_matches(with_counts, g_gdf, b_gdf)

(***************************************************************************)
(* The bucket waterfall of MatcherBase.                                    *)
(***************************************************************************)
\* rows of self.gisib (only the id column is kept) without a row in intersection_df
no_matches(df, g_gdf) ==
    LET matched == Ids(df)
        own == SelectSeq(SelfGisib(g_gdf), LAMBDA g : g \notin matched)
    IN [i \in 1..Len(own) |-> [GUID |-> own[i]]]

\* the 1:1 condition with inclusive thresholds (ratio >= 0.75)
is_1_to_1_geom_inclusive(r) ==
    /\ r.guids_per_lokaalid = 1
    /\ r.lokaalids_per_guid = 1
    /\ Ge(r.overlap_bgt, GEOM_1_TO_1_RATIO)
    /\ Ge(r.overlap_gisib, GEOM_1_TO_1_RATIO)

is_1_to_1_geom(r) ==
    /\ r.guids_per_lokaalid = 1
    /\ r.lokaalids_per_guid = 1
    /\ Gt(r.overlap_bgt, GEOM_1_TO_1_RATIO)
    /\ Gt(r.overlap_gisib, GEOM_1_TO_1_RATIO)

select_1_to_1_geometric_matches(df) ==
    [matches |-> SelectSeq(df, LAMBDA r : is_1_to_1_geom(r)),
     remaining |-> SelectSeq(df, LAMBDA r : ~is_1_to_1_geom(r))]

\* (ratio > 0.90) & (ratio < 1.1)
InBand(r) == Gt(r, BAND_LOW) /\ Lt(r, BAND_HIGH)

\* x.nunique(dropna=False) of the values of an attribute column
NUnique(values) == Cardinality(Range(values))

\* one row per (LOKAALID, source elevation) group: 1 BGT : N GISIB
build_bgt_gisib_grouped(df, g_gdf) ==
    LET hoogte(r) == FillNa0(g_gdf[r.GUID].hl)
        keys == {<<df[i].LOKAALID, hoogte(df[i])>> : i \in 1..Len(df)}
        rows(k) == SelectSeq(df, LAMBDA r : r.LOKAALID = k[1] /\ hoogte(r) = k[2])
        group(k) ==
            LET rs == rows(k)
                overlap_bgt == SumRatio([i \in 1..Len(rs) |-> rs[i].overlap_bgt])
                overlap_gisib == MeanRatio([i \in 1..Len(rs) |-> rs[i].overlap_gisib])
            IN [LOKAALID |-> k[1], hoogteligging |-> k[2],
                guid_list |-> [i \in 1..Len(rs) |-> rs[i].GUID],
                guid_count |-> Len(rs),
                ONDERHOUDSPLICHTIGE |->
                    NUnique([i \in 1..Len(rs) |-> g_gdf[rs[i].GUID].ONDERHOUDSPLICHTIGE]),
                TYPE |-> NUnique([i \in 1..Len(rs) |-> g_gdf[rs[i].GUID].TYPE]),
                TYPE_GEDETAILLEERD |->
                    NUnique([i \in 1..Len(rs) |-> g_gdf[rs[i].GUID].TYPE_GEDETAILLEERD]),
                BEHEERDER_GEDETAILLEERD |->
                    NUnique([i \in 1..Len(rs) |-> g_gdf[rs[i].GUID].BEHEERDER_GEDETAILLEERD]),
                overlap_gisib10 |-> InBand(overlap_gisib),
                overlap_bgt10 |-> InBand(overlap_bgt)]
    IN {group(k) : k \in keys}

\* one row per (GUID, target elevation) group: 1 GISIB : N BGT
build_gisib_bgt_grouped(df, b_gdf) ==
    LET hoogte(r) == FillNa0(b_gdf[r.LOKAALID].hl)
        keys == {<<df[i].GUID, hoogte(df[i])>> : i \in 1..Len(df)}
        rows(k) == SelectSeq(df, LAMBDA r : r.GUID = k[1] /\ hoogte(r) = k[2])
        group(k) ==
            LET rs == rows(k)
                overlap_gisib == SumRatio([i \in 1..Len(rs) |-> rs[i].overlap_gisib])
                overlap_bgt == MeanRatio([i \in 1..Len(rs) |-> rs[i].overlap_bgt])
            IN [GUID |-> k[1], hoogteligging |-> k[2],
                lokaalid_list |-> [i \in 1..Len(rs) |-> rs[i].LOKAALID],
                lokaalid_count |-> Len(rs),
                overlap_gisib10 |-> InBand(overlap_gisib),
                overlap_bgt10 |-> InBand(overlap_bgt)]
    IN {group(k) : k \in keys}

_select_1_bgt_to_n_gisib_overlap5_split(bgt_gisib) ==
    UNION {Range(g.guid_list) :
            g \in {x \in bgt_gisib : /\ x.guid_count > 1
                                     /\ x.overlap_bgt10
                                     /\ x.overlap_gisib10}}

\* the merge selection without the three attribute conditions
_select_1_bgt_to_n_gisib_overlap5_merge_any(bgt_gisib) ==
    UNION {Range(g.guid_list) :
            g \in {x \in bgt_gisib : /\ x.guid_count > 1
                                     /\ x.overlap_bgt10
                                     /\ x.overlap_gisib10}}

_select_1_bgt_to_n_gisib_overlap5_merge(bgt_gisib) ==
    UNION {Range(g.guid_list) :
            g \in {x \in bgt_gisib : /\ x.guid_count > 1
                                     /\ x.overlap_bgt10
                                     /\ x.overlap_gisib10
                                     /\ x.ONDERHOUDSPLICHTIGE = 1
                                     /\ x.TYPE_GEDETAILLEERD = 1
                                     /\ x.BEHEERDER_GEDETAILLEERD < 2}}

select_1_bgt_to_n_gisib_overlap5_matches(df, g_gdf) ==
    LET bgt_gisib == build_bgt_gisib_grouped(df, g_gdf)
        guids_to_merge == _select_1_bgt_to_n_gisib_overlap5_merge(bgt_gisib)
        guids_to_split ==
            _select_1_bgt_to_n_gisib_overlap5_split(bgt_gisib) \ guids_to_merge
    IN [bucket_merge |-> SelectSeq(df, LAMBDA r : r.GUID \in guids_to_merge),
        bucket_split |-> SelectSeq(df, LAMBDA r : r.GUID \in guids_to_split),
        remaining |-> SelectSeq(df, LAMBDA r : r.GUID \notin (guids_to_merge \cup guids_to_split))]

\* the 1 GISIB : N BGT selection without the test lokaalid_count > 1
select_1_gisib_to_n_bgt_overlap5_matches_any_count(df, b_gdf) ==
    LET gisib_bgt == build_gisib_bgt_grouped(df, b_gdf)
        guids_to_split ==
            {g.GUID : g \in {x \in gisib_bgt : x.overlap_bgt10 /\ x.overlap_gisib10}}
    IN [bucket_split |-> SelectSeq(df, LAMBDA r : r.GUID \in guids_to_split),
        remaining |-> SelectSeq(df, LAMBDA r : r.GUID \notin guids_to_split)]

select_1_gisib_to_n_bgt_overlap5_matches(df, b_gdf) ==
    LET gisib_bgt == build_gisib_bgt_grouped(df, b_gdf)
        guids_to_split ==
            {g.GUID : g \in {x \in gisib_bgt : /\ x.overlap_bgt10
                                               /\ x.overlap_gisib10
                                               /\ x.lokaalid_count > 1}}
    IN [bucket_split |-> SelectSeq(df, LAMBDA r : r.GUID \in guids_to_split),
        remaining |-> SelectSeq(df, LAMBDA r : r.GUID \notin guids_to_split)]

\* geom_matches[gisib_id_col].value_counts().max()
MaxValueCount(df) ==
    LET count(g) == Cardinality({i \in 1..Len(df) : df[i].GUID = g})
    IN CHOOSE n \in 1..Len(df) :
          /\ \E g \in Ids(df) : count(g) = n
          /\ \A g \in Ids(df) : count(g) <= n

geom_matches_of(df) ==
    SelectSeq(df, LAMBDA r : /\ Gt(r.overlap_bgt, GEOM_MATCH_RATIO)
                          /\ Gt(r.overlap_gisib, GEOM_MATCH_RATIO))

\* geom_match run with assertions disabled
geom_match_assertion_disabled(matches) == TRUE

\* the assert of geom_match: it is only evaluated on a non-empty frame
geom_match_assertion(matches) ==
    IF Len(matches) = 0 THEN TRUE ELSE MaxValueCount(matches) = 1

\* geom_match with the remaining frame computed by row instead of by source id
geom_match_remaining_by_row(df, matches) ==
    SelectSeq(df, LAMBDA r : r \notin Range(matches))

geom_match_remaining(df, matches) ==
    SelectSeq(df, LAMBDA r : r.GUID \notin Ids(matches))

geom_match(df) ==
    [geom_matches |-> geom_matches_of(df),
     remaining |-> geom_match_remaining(df, geom_matches_of(df))]

\* df.sort_values(by=key), where less[i][j] says that the key of row i sorts
\* before the key of row j: the row at position i moves behind every row with a
\* smaller key and behind the earlier rows with an equal key
SortValues(df, less) ==
    LET pos(i) == 1 + Cardinality({j \in 1..Len(df) :
                        \/ less[j][i]
                        \/ (~less[i][j] /\ j < i)})
    IN [k \in 1..Len(df) |-> df[CHOOSE i \in 1..Len(df) : pos(i) = k]]

\* ~duplicated(keep="first") of position i of a column with the values keys
IsFirst(keys, i) == \A j \in 1..(i - 1) : keys[j] # keys[i]

\* the column gisib_id_col / bgt_id_col of a frame
GuidCol(df) == [i \in 1..Len(df) |-> df[i].GUID]
LokaalidCol(df) == [i \in 1..Len(df) |-> df[i].LOKAALID]

\* df.drop_duplicates(gisib_id_col, keep="first")
DropDuplicates(df) ==
    LET keep == SelectSeq([i \in 1..Len(df) |-> i], LAMBDA i : IsFirst(GuidCol(df), i))
    IN [k \in 1..Len(keep) |-> df[keep[k]]]

LessRatio(r, s) == r.n * s.d < s.n * r.d

\* additional_matches_based_on_overlap that leaves the matched ids in remaining
additional_matches_keep_remaining(df) ==
    LET total_sum(r) == Plus(r.overlap_gisib, r.overlap_bgt)
    IN [bucket |-> SelectSeq(df, LAMBDA r : Gt(total_sum(r), OVERLAP_SUM_RATIO)),
        remaining |-> df]

\* VerhardingenMatcher.additional_matches_based_on_overlap
additional_matches_based_on_overlap(df) ==
    LET total_sum(r) == Plus(r.overlap_gisib, r.overlap_bgt)
        sorted == SortValues(df, [i \in 1..Len(df) |-> [j \in 1..Len(df) |->
                      LessRatio(total_sum(df[i]), total_sum(df[j]))]])
        bucket == SelectSeq(sorted, LAMBDA r : Gt(total_sum(r), OVERLAP_SUM_RATIO))
    IN [bucket |-> bucket,
        remaining |-> SelectSeq(df, LAMBDA r : r.GUID \notin Ids(bucket))]

clip_candidates(df) ==
    SelectSeq(df, LAMBDA r : /\ Lt(r.overlap_bgt, CLIP_BGT_RATIO)
                          /\ Gt(r.overlap_gisib, CLIP_GISIB_RATIO))

\* astype(int) of the target elevation column raises on a null value; only the
\* source elevation column is null-filled in clip_match
clip_match_raises(df, b_gdf) ==
    \E r \in Range(clip_candidates(df)) : b_gdf[r.LOKAALID].hl = Null

clip_match_remaining(df, matched) ==
    SelectSeq(df, LAMBDA r : r.GUID \notin Ids(matched))

\* clip_match without the sort on hoogte_equal
clip_match_unsorted(df, g_gdf, b_gdf) ==
    LET matched == DropDuplicates(clip_candidates(df))
    IN [df |-> matched, remaining |-> clip_match_remaining(df, matched)]

clip_match(df, g_gdf, b_gdf) ==
    LET hoogte_equal(r) == b_gdf[r.LOKAALID].hl[1] = FillNa0(g_gdf[r.GUID].hl)
        cand == clip_candidates(df)
        \* ascending=False: a row with hoogte_equal sorts before one without
        sorted == SortValues(cand, [i \in 1..Len(cand) |-> [j \in 1..Len(cand) |->
                      hoogte_equal(cand[i]) /\ ~hoogte_equal(cand[j])]])
        matched == DropDuplicates(sorted)
    IN [df |-> matched, remaining |-> clip_match_remaining(df, matched)]

\* buckets.py: the (enum member, value) pairs of BucketsBase and BucketsVRH
BASE_BUCKETS ==
    <<<<"BUCKET0", "no_matches">>, <<"BUCKET1", "geom_1_to_1">>,
      <<"BUCKET2", "bgt_split">>, <<"BUCKET3", "gisib_merge">>,
      <<"BUCKET4", "gisib_split">>, <<"BUCKET5", "geom_75_match">>,
      <<"BUCKET6", "clip_match">>, <<"REMAINING", "remaining">>>>

VRH_BUCKETS ==
    SubSeq(BASE_BUCKETS, 1, Len(BASE_BUCKETS) - 2)
        \o <<<<"BUCKET6", "geom_overlap_150_match">>, <<"BUCKET7", "clip_match">>,
             <<"REMAINING", "remaining">>>>

\* Enum lookup: the value of member `key` in the enum built from `items`
EnumValue(items, key) ==
    items[CHOOSE i \in 1..Len(items) : items[i][1] = key][2]

BucketsBase(key) == EnumValue(BASE_BUCKETS, key)
BucketsVRH(key) == EnumValue(VRH_BUCKETS, key)

\* the dict MatcherBase.run returns, in insertion order
RunResultBase(bs, rem) ==
    <<<<BucketsBase("BUCKET0"), bs.bucket0>>, <<BucketsBase("BUCKET1"), bs.bucket1>>,
      <<BucketsBase("BUCKET2"), bs.bucket2>>, <<BucketsBase("BUCKET3"), bs.bucket3>>,
      <<BucketsBase("BUCKET4"), bs.bucket4>>, <<BucketsBase("BUCKET5"), bs.bucket5>>,
      <<BucketsBase("BUCKET6"), bs.bucket6>>, <<BucketsBase("REMAINING"), rem>>>>

\* the dict VerhardingenMatcher.run returns, in insertion order
RunResultVRH(bs, rem) ==
    <<<<BucketsVRH("BUCKET0"), bs.bucket0>>, <<BucketsVRH("BUCKET1"), bs.bucket1>>,
      <<BucketsVRH("BUCKET2"), bs.bucket2>>, <<BucketsVRH("BUCKET3"), bs.bucket3>>,
      <<BucketsVRH("BUCKET4"), bs.bucket4>>, <<BucketsVRH("BUCKET5"), bs.bucket5>>,
      <<BucketsVRH("BUCKET6"), bs.bucket6>>, <<BucketsVRH("BUCKET7"), bs.bucket7>>,
      <<BucketsVRH("REMAINING"), rem>>>>

\* dict access: the keys of a returned mapping and the frame under a key
Names(res) == {res[i][1] : i \in 1..Len(res)}
Frame(res, name) ==
    IF name \in Names(res)
    THEN res[CHOOSE i \in 1..Len(res) : res[i][1] = name][2]
    ELSE <<>>

(***************************************************************************)
(* The bucket-to-action processor of bucket_processor.py.                  *)
(***************************************************************************)
\* df[[gisib_id_col, bgt_id_col]]
IdPair(r) == [GUID |-> r.GUID, LOKAALID |-> r.LOKAALID]

\* the columns [gisib_id_col, bgt_id_col, "geometry_bgt"] with the target
\* geometry as the active geometry
GeometryRow(r, b_gdf) ==
    [GUID |-> r.GUID, LOKAALID |-> r.LOKAALID, geometry |-> b_gdf[r.LOKAALID].area]

only_match_id(df) == [i \in 1..Len(df) |-> IdPair(df[i])]

\* the positions of a column that are (not) duplicates of an earlier position
FirstRows(keys) ==
    SelectSeq([i \in 1..Len(keys) |-> i], LAMBDA i : IsFirst(keys, i))
DuplicatedRows(keys) ==
    SelectSeq([i \in 1..Len(keys) |-> i], LAMBDA i : ~IsFirst(keys, i))

match_id_and_remove(df, b_gdf) ==
    LET \* area is the area of the active geometry: the intersection polygon
        df_result == SortValues(df, [i \in 1..Len(df) |-> [j \in 1..Len(df) |->
                         df[i].area > df[j].area]])
        dups == DuplicatedRows(LokaalidCol(df_result))
        firsts == FirstRows(LokaalidCol(df_result))
        df_remove == [k \in 1..Len(dups) |-> [GUID |-> df_result[dups[k]].GUID]]
        df_change_geometry ==
            [k \in 1..Len(firsts) |-> GeometryRow(df_result[firsts[k]], b_gdf)]
        kept == SelectSeq(df_result, LAMBDA r : r.GUID \notin Ids(df_remove))
    IN [result_df |-> [i \in 1..Len(kept) |-> IdPair(kept[i])],
        change_geometry |-> df_change_geometry,
        remove |-> df_remove,
        add |-> <<>>,
        new_guid_values |-> <<>>]

\* str(uuid.uuid4()) and str.upper() on the values uuid4 can return here
UUID4_STR ==
    <<"1b9d6bcd-bbfd", "9c5f0e2a-41d7", "f47ac10b-58cc", "6ec0bd7f-11c0",
      "a3bb189e-8bf9", "0e37df36-f698">>
UUID4_STR_UPPER ==
    <<"1B9D6BCD-BBFD", "9C5F0E2A-41D7", "F47AC10B-58CC", "6EC0BD7F-11C0",
      "A3BB189E-8BF9", "0E37DF36-F698">>
upper(s) ==
    IF \E i \in 1..Len(UUID4_STR) : UUID4_STR[i] = s
    THEN UUID4_STR_UPPER[CHOOSE i \in 1..Len(UUID4_STR) : UUID4_STR[i] = s]
    ELSE s

\* the results of n successive uuid4() calls: each call returns a value that no
\* earlier call returned
Uuid4Draws(n) ==
    {d \in [1..n -> 1..MaxUuids] : \A i, j \in 1..n : i # j => d[i] # d[j]}

\* the identifier built without str.upper()
new_guid_lowercase(u) == "{" \o UUID4_STR[u] \o "}"

new_guid(u) == "{" \o upper(UUID4_STR[u]) \o "}"

\* the position of row r in df (rows are unique by their id pair)
IndexOf(df, r) ==
    CHOOSE i \in 1..Len(df) : df[i].GUID = r.GUID /\ df[i].LOKAALID = r.LOKAALID

\* KEEP_GUID computed from duplicates by target id instead of by source id
KEEP_GUID_by_target(df, r) == IsFirst(LokaalidCol(df), IndexOf(df, r))

\* KEEP_GUID: ~df.duplicated(subset=[gisib_id_col], keep="first") is computed on
\* the frame as passed in and joined to the sorted frame by row label
KEEP_GUID(df, r) == IsFirst(GuidCol(df), IndexOf(df, r))

\* gisib_df.merge(df_add, how="inner", on=gisib_id_col): left order, then right
RECURSIVE MergeInner(_, _, _)
MergeInner(order, g_gdf, df_add) ==
    IF Len(order) = 0 THEN <<>>
    ELSE LET g == Head(order)
             right == SelectSeq(df_add, LAMBDA r : r.GUID = g)
         IN [k \in 1..Len(right) |->
                [GUID |-> g, TYPE |-> g_gdf[g].TYPE,
                 ONDERHOUDSPLICHTIGE |-> g_gdf[g].ONDERHOUDSPLICHTIGE,
                 TYPE_GEDETAILLEERD |-> g_gdf[g].TYPE_GEDETAILLEERD,
                 BEHEERDER_GEDETAILLEERD |-> g_gdf[g].BEHEERDER_GEDETAILLEERD,
                 hl |-> g_gdf[g].hl,
                 LOKAALID |-> right[k].LOKAALID, geometry |-> right[k].geometry]]
            \o MergeInner(Tail(order), g_gdf, df_add)

match_id_and_add(df, g_gdf, b_gdf, uuid4) ==
    LET df_result == [i \in 1..Len(df) |-> IdPair(df[i])]
        df_objects ==
            SortValues(df, [i \in 1..Len(df) |-> [j \in 1..Len(df) |->
                b_gdf[df[i].LOKAALID].area > b_gdf[df[j].LOKAALID].area]])
        df_add_rows == SelectSeq(df_objects, LAMBDA r : ~KEEP_GUID(df, r))
        df_add == [k \in 1..Len(df_add_rows) |-> GeometryRow(df_add_rows[k], b_gdf)]
        merged == MergeInner(GisibOrder, g_gdf, df_add)
        new_guid_values == [k \in 1..Len(merged) |-> new_guid(uuid4[k])]
        add_objects ==
            [k \in 1..Len(merged) |-> [merged[k] EXCEPT !.GUID = new_guid_values[k]]]
        keep_rows == SelectSeq(df_objects, LAMBDA r : KEEP_GUID(df, r))
        change_geometry_objects ==
            [k \in 1..Len(keep_rows) |-> GeometryRow(keep_rows[k], b_gdf)]
        add_lokaalids == {df_add[k].LOKAALID : k \in 1..Len(df_add)}
    IN [result_df |-> SelectSeq(df_result, LAMBDA r : r.LOKAALID \notin add_lokaalids),
        change_geometry |-> change_geometry_objects,
        remove |-> <<>>,
        add |-> add_objects,
        new_guid_values |-> new_guid_values]

\* the number of uuid4() calls match_id_and_add makes on df
AddCount(df) == Len(SelectSeq(df, LAMBDA r : ~KEEP_GUID(df, r)))

\* BUCKET_MATCH_CONFIG: bucket name -> mode ("none" = no entry)
BUCKET_MATCH_CONFIG(name) ==
    CASE name = BucketsBase("BUCKET1") -> "only"
      [] name = BucketsBase("BUCKET2") -> "remove"
      [] name = BucketsBase("BUCKET4") -> "add"
      [] name = BucketsBase("BUCKET5") -> "only"
      [] name = BucketsVRH("BUCKET6") -> "only"
      [] OTHER -> "none"

\* buckets.py: AUTOMATIC_BUCKETS after the append of BucketsVRH.BUCKET6
AUTOMATIC_BUCKETS ==
    {BucketsBase("BUCKET1"), BucketsBase("BUCKET4"), BucketsBase("BUCKET5"),
     BucketsVRH("BUCKET6")}

\* Controller.filtered_buckets(bucket_type="automatic", ...): the non-empty
\* buckets whose name is one of the automatic values, in dict order
filtered_buckets(res, automatic_bucket_values) ==
    SelectSeq(res, LAMBDA e : e[1] \in automatic_bucket_values /\ Len(e[2]) > 0)

\* one iteration of the bucket loop of process_and_export_per_asset_mode
ProcessBucket(name, df, g_gdf, b_gdf, uuid4) ==
    LET mode == BUCKET_MATCH_CONFIG(name)
        out == CASE mode = "add" -> match_id_and_add(df, g_gdf, b_gdf, uuid4)
                 [] mode = "remove" -> match_id_and_remove(df, b_gdf)
                 [] mode = "only" ->
                        [result_df |-> only_match_id(df), change_geometry |-> <<>>,
                         remove |-> <<>>, add |-> <<>>, new_guid_values |-> <<>>]
                 [] OTHER ->
                        [result_df |-> <<>>, change_geometry |-> <<>>,
                         remove |-> <<>>, add |-> <<>>, new_guid_values |-> <<>>]
    IN [bucket |-> name, mode |-> mode, df |-> df, result_df |-> out.result_df,
        change_geometry |-> out.change_geometry, remove |-> out.remove,
        add |-> out.add, new_guid_values |-> out.new_guid_values]

RECURSIVE Concat(_)
Concat(frames) ==
    IF Len(frames) = 0 THEN <<>> ELSE Head(frames) \o Concat(Tail(frames))

\* process_and_export_per_asset_mode for one asset
\* process_and_export_per_asset_mode that leaves the bucket loop at the first
\* name without a config entry
process_and_export_stops_at_unconfigured(bucket_dict, g_gdf, b_gdf, uuid4) ==
    LET calls == [i \in 1..Len(bucket_dict) |->
                    ProcessBucket(bucket_dict[i][1], bucket_dict[i][2], g_gdf, b_gdf, uuid4)]
        reached(i) == \A j \in 1..(i - 1) : calls[j].mode # "none"
        idx == SelectSeq([i \in 1..Len(calls) |-> i], reached)
        ran == [k \in 1..Len(idx) |-> calls[idx[k]]]
        done == SelectSeq(ran, LAMBDA c : c.mode # "none")
    IN [done |-> TRUE,
        bucket_dict |-> [i \in 1..Len(bucket_dict) |-> bucket_dict[i][1]],
        calls |-> done,
        skipped |-> LET none == SelectSeq(ran, LAMBDA c : c.mode = "none")
                    IN [i \in 1..Len(none) |-> none[i].bucket],
        match |-> Concat([i \in 1..Len(done) |-> done[i].result_df]),
        remove |-> DropDuplicates(Concat([i \in 1..Len(done) |-> done[i].remove])),
        add |-> Concat([i \in 1..Len(done) |-> done[i].add]),
        change_geometry |-> Concat([i \in 1..Len(done) |-> done[i].change_geometry])]

process_and_export_per_asset_mode(bucket_dict, g_gdf, b_gdf, uuid4) ==
    LET calls == [i \in 1..Len(bucket_dict) |->
                    ProcessBucket(bucket_dict[i][1], bucket_dict[i][2], g_gdf, b_gdf, uuid4)]
        done == SelectSeq(calls, LAMBDA c : c.mode # "none")
    IN [done |-> TRUE,
        \* the keys of bucket_dict in the order the loop visits them
        bucket_dict |-> [i \in 1..Len(bucket_dict) |-> bucket_dict[i][1]],
        calls |-> done,
        \* names without a config entry: a warning is logged and the loop continues
        skipped |-> LET none == SelectSeq(calls, LAMBDA c : c.mode = "none")
                    IN [i \in 1..Len(none) |-> none[i].bucket],
        match |-> Concat([i \in 1..Len(done) |-> done[i].result_df]),
        remove |-> DropDuplicates(Concat([i \in 1..Len(done) |-> done[i].remove])),
        add |-> Concat([i \in 1..Len(done) |-> done[i].add]),
        change_geometry |-> Concat([i \in 1..Len(done) |-> done[i].change_geometry])]

(***************************************************************************)
(* The state machine.                                                      *)
(***************************************************************************)
NoBuckets ==
    [bucket0 |-> <<>>, bucket1 |-> <<>>, bucket2 |-> <<>>, bucket3 |-> <<>>,
     bucket4 |-> <<>>, bucket5 |-> <<>>, bucket6 |-> <<>>, bucket7 |-> <<>>]

NoStageIn ==
    [overlay |-> <<>>, with_counts |-> <<>>,
     merge |-> <<>>, split |-> <<>>, geom |-> <<>>, overlap150 |-> <<>>, clip |-> <<>>]

NoExport ==
    [done |-> FALSE, bucket_dict |-> <<>>, calls |-> <<>>, skipped |-> <<>>, match |-> <<>>,
     remove |-> <<>>, add |-> <<>>, change_geometry |-> <<>>]

\* The controller outside a batch: create_buckets() is not followed.
NoController ==
    [pos |-> 0, buckets |-> <<>>, created_buckets |-> <<>>, status |-> "none"]

\* The automatic_bucket_values tried for the export: main.py takes them from
\* ALL_AUTOMATIC_BUCKETS, which buckets.py does not define; the list
\* AUTOMATIC_BUCKETS and the list of every bucket name are both tried.
AutomaticChoices(res) == {AUTOMATIC_BUCKETS, Names(res)}

\* The (elevation, profile) pairs tried for the second source feature.
Gisib2Kinds ==
    {<<h, PlainProfile>> : h \in Levels} \cup {<<Null, p>> : p \in GisibProfiles}

Init ==
    /\ matcher \in Matchers
    /\ \E a1 \in GisibAreas, a2 \in GisibAreas, k \in Gisib2Kinds,
          c1 \in Bgt1Areas, c2 \in Bgt2Areas,
          k1 \in Bgt1Levels, k2 \in Bgt2Levels :
          /\ gisib_gdf = ("g1" :> GisibFeature(a1, Null, PlainProfile)
                          @@ "g2" :> GisibFeature(a2, k[1], k[2]))
          /\ bgt_gdf = ("b1" :> BgtFeature(c1, k1, "Vegetatieobject")
                        @@ "b2" :> BgtFeature(c2, k2, "Vegetatieobject"))
          /\ \E i11 \in InterChoices(a1, c1), i12 \in InterChoices(a1, c2),
                i21 \in InterChoices(a2, c1), i22 \in InterChoices(a2, c2) :
                overlay_area = (<<"g1", "b1">> :> i11 @@ <<"g1", "b2">> :> i12
                                @@ <<"g2", "b1">> :> i21 @@ <<"g2", "b2">> :> i22)
    /\ pc = "constructed"
    /\ intersection_df = <<>>
    /\ remaining = <<>>
    /\ buckets = NoBuckets
    /\ stage_in = NoStageIn
    /\ result = <<>>
    /\ export = NoExport
    /\ controller = NoController

Preprocess ==
    /\ pc = "constructed"
    /\ intersection_df' = IF matcher = "groen"
                          THEN GroenobjectenMatcher_preprocess(gisib_gdf, bgt_gdf, overlay_area)
                          ELSE preprocess(gisib_gdf, bgt_gdf, overlay_area)
    /\ pc' = "preprocessed"
    /\ UNCHANGED <<controller, gisib_gdf, bgt_gdf, overlay_area, matcher, remaining, buckets,
                   stage_in, result, export>>

NoMatches ==
    /\ pc = "preprocessed"
    /\ buckets' = [buckets EXCEPT !.bucket0 = no_matches(intersection_df, gisib_gdf)]
    /\ pc' = "bucket0"
    /\ UNCHANGED <<controller, gisib_gdf, bgt_gdf, overlay_area, matcher, intersection_df,
                   remaining, stage_in, result, export>>

Select1To1 ==
    /\ pc = "bucket0"
    /\ LET out == select_1_to_1_geometric_matches(intersection_df)
       IN /\ buckets' = [buckets EXCEPT !.bucket1 = out.matches]
          /\ remaining' = out.remaining
    /\ pc' = "bucket1"
    /\ UNCHANGED <<controller, gisib_gdf, bgt_gdf, overlay_area, matcher, intersection_df,
                   stage_in, result, export>>

Select1BgtToNGisib ==
    /\ pc = "bucket1"
    /\ LET out == select_1_bgt_to_n_gisib_overlap5_matches(remaining, gisib_gdf)
       IN /\ buckets' = [buckets EXCEPT !.bucket2 = out.bucket_merge,
                                        !.bucket3 = out.bucket_split]
          /\ remaining' = out.remaining
    /\ stage_in' = [stage_in EXCEPT !.merge = remaining]
    /\ pc' = "bucket3"
    /\ UNCHANGED <<controller, gisib_gdf, bgt_gdf, overlay_area, matcher, intersection_df,
                   result, export>>

Select1GisibToNBgt ==
    /\ pc = "bucket3"
    /\ LET out == select_1_gisib_to_n_bgt_overlap5_matches(remaining, bgt_gdf)
       IN /\ buckets' = [buckets EXCEPT !.bucket4 = out.bucket_split]
          /\ remaining' = out.remaining
    /\ stage_in' = [stage_in EXCEPT !.split = remaining]
    /\ pc' = "bucket4"
    /\ UNCHANGED <<controller, gisib_gdf, bgt_gdf, overlay_area, matcher, intersection_df,
                   result, export>>

GeomMatch ==
    /\ pc = "bucket4"
    /\ geom_match_assertion(geom_matches_of(remaining))
    /\ LET out == geom_match(remaining)
       IN /\ buckets' = [buckets EXCEPT !.bucket5 = out.geom_matches]
          /\ remaining' = out.remaining
    /\ stage_in' = [stage_in EXCEPT !.geom = remaining]
    /\ pc' = "bucket5"
    /\ UNCHANGED <<controller, gisib_gdf, bgt_gdf, overlay_area, matcher, intersection_df,
                   result, export>>

\* the assert fails: run() raises AssertionError and returns nothing
GeomMatchAssertionError ==
    /\ pc = "bucket4"
    /\ ~geom_match_assertion(geom_matches_of(remaining))
    /\ stage_in' = [stage_in EXCEPT !.geom = remaining]
    /\ pc' = "AssertionError"
    /\ UNCHANGED <<controller, gisib_gdf, bgt_gdf, overlay_area, matcher, intersection_df,
                   remaining, buckets, result, export>>

AdditionalMatches ==
    /\ pc = "bucket5"
    /\ matcher = "vrh"
    /\ LET out == additional_matches_based_on_overlap(remaining)
       IN /\ buckets' = [buckets EXCEPT !.bucket6 = out.bucket]
          /\ remaining' = out.remaining
    /\ stage_in' = [stage_in EXCEPT !.overlap150 = remaining]
    /\ pc' = "bucket6"
    /\ UNCHANGED <<controller, gisib_gdf, bgt_gdf, overlay_area, matcher, intersection_df,
                   result, export>>

AtClip == (matcher # "vrh" /\ pc = "bucket5") \/ (matcher = "vrh" /\ pc = "bucket6")

ClipMatch ==
    /\ AtClip
    /\ ~clip_match_raises(remaining, bgt_gdf)
    /\ LET out == clip_match(remaining, gisib_gdf, bgt_gdf)
       IN /\ buckets' = IF matcher = "vrh"
                        THEN [buckets EXCEPT !.bucket7 = out.df]
                        ELSE [buckets EXCEPT !.bucket6 = out.df]
          /\ remaining' = out.remaining
    /\ stage_in' = [stage_in EXCEPT !.clip = remaining]
    /\ pc' = "clip"
    /\ UNCHANGED <<controller, gisib_gdf, bgt_gdf, overlay_area, matcher, intersection_df,
                   result, export>>

\* astype(int) raises on a null target elevation: run() returns nothing
ClipMatchError ==
    /\ AtClip
    /\ clip_match_raises(remaining, bgt_gdf)
    /\ stage_in' = [stage_in EXCEPT !.clip = remaining]
    /\ pc' = "IntCastingNaNError"
    /\ UNCHANGED <<controller, gisib_gdf, bgt_gdf, overlay_area, matcher, intersection_df,
                   remaining, buckets, result, export>>

Return ==
    /\ pc = "clip"
    /\ result' = IF matcher = "vrh"
                 THEN RunResultVRH(buckets, remaining)
                 ELSE RunResultBase(buckets, remaining)
    /\ pc' = "returned"
    /\ UNCHANGED <<controller, gisib_gdf, bgt_gdf, overlay_area, matcher, intersection_df,
                   remaining, buckets, stage_in, export>>

ProcessAndExport ==
    /\ pc = "returned"
    /\ \E automatic_bucket_values \in AutomaticChoices(result) :
          LET bucket_dict == filtered_buckets(result, automatic_bucket_values)
              n == AddCount(Frame(bucket_dict, BucketsBase("BUCKET4")))
          IN \E uuid4 \in Uuid4Draws(n) :
                export' = process_and_export_per_asset_mode(
                              bucket_dict, gisib_gdf, bgt_gdf, uuid4)
    /\ pc' = "exported"
    /\ UNCHANGED <<controller, gisib_gdf, bgt_gdf, overlay_area, matcher, intersection_df,
                   remaining, buckets, stage_in, result>>

Next ==
    \/ Preprocess
    \/ NoMatches
    \/ Select1To1
    \/ Select1BgtToNGisib
    \/ Select1GisibToNBgt
    \/ GeomMatch
    \/ GeomMatchAssertionError
    \/ AdditionalMatches
    \/ ClipMatch
    \/ ClipMatchError
    \/ Return
    \/ ProcessAndExport

Spec == Init /\ [][Next]_vars

(***************************************************************************)
(* Controller.create_buckets(): one matcher run per asset type, in the     *)
(* order of ASSET_MATCHER_CLASSES.  The run of one asset type (the one     *)
(* whose matcher class is `matcher`) is followed step by step on the       *)
(* inputs of the state; the run of any other asset type is one step that   *)
(* either returns its mapping or raises.  TerreindelenMatcher is not among *)
(* the matcher sources and runs as MatcherBase.                            *)
(***************************************************************************)
ASSET_MATCHER_CLASSES ==
    << <<"verhardingen", "vrh">>, <<"groenobjecten", "groen">>, <<"terreindeel", "base">> >>

AssetNames == {ASSET_MATCHER_CLASSES[i][1] : i \in 1..Len(ASSET_MATCHER_CLASSES)}

\* the loop of create_buckets stands at an asset type
InLoop == controller.status = "looping" /\ controller.pos <= Len(ASSET_MATCHER_CLASSES)

\* the asset type the loop stands at, and whether its run is the one followed
AssetName == ASSET_MATCHER_CLASSES[controller.pos][1]
Followed == ASSET_MATCHER_CLASSES[controller.pos][2] = matcher

HaagProfile == [PlainProfile EXCEPT !.TYPE = "Haag"]

\* Inputs tried in a batch: the first source feature is a hedge or not and
\* the first target a vegetation object or not; the second source feature
\* has one area.
BatchGisib2Areas == {5}
BatchBgt1Areas == {5, 11}

InitBatch ==
    /\ matcher \in AllMatchers
    /\ \E a1 \in GisibAreas, a2 \in BatchGisib2Areas, p1 \in {PlainProfile, HaagProfile},
          c1 \in BatchBgt1Areas, c2 \in Bgt2Areas,
          k1 \in Bgt1Levels, k2 \in Bgt2Levels, t1 \in ObjectTypes :
          /\ gisib_gdf = ("g1" :> GisibFeature(a1, Null, p1)
                          @@ "g2" :> GisibFeature(a2, Null, PlainProfile))
          /\ bgt_gdf = ("b1" :> BgtFeature(c1, k1, t1)
                        @@ "b2" :> BgtFeature(c2, k2, "Vegetatieobject"))
          /\ \E i11 \in InterChoices(a1, c1), i12 \in InterChoices(a1, c2),
                i21 \in InterChoices(a2, c1), i22 \in InterChoices(a2, c2) :
                overlay_area = (<<"g1", "b1">> :> i11 @@ <<"g1", "b2">> :> i12
                                @@ <<"g2", "b1">> :> i21 @@ <<"g2", "b2">> :> i22)
    /\ pc = "create_buckets"
    /\ intersection_df = <<>>
    /\ remaining = <<>>
    /\ buckets = NoBuckets
    /\ stage_in = NoStageIn
    /\ result = <<>>
    /\ export = NoExport
    /\ controller = [pos |-> 1, buckets |-> <<>>, created_buckets |-> <<>>,
                     status |-> "looping"]

\* `if asset_name.value in self.assets` is false: the asset type is passed over
AssetAbsent ==
    /\ InLoop /\ pc = "create_buckets"
    /\ ~Followed
    /\ controller' = [controller EXCEPT !.pos = @ + 1]
    /\ UNCHANGED <<gisib_gdf, bgt_gdf, overlay_area, matcher, pc, intersection_df,
                   remaining, buckets, stage_in, result, export>>

\* matcher_class(...) for the asset type whose run is followed
Construct ==
    /\ InLoop /\ pc = "create_buckets"
    /\ Followed
    /\ pc' = "constructed"
    /\ UNCHANGED <<controller, gisib_gdf, bgt_gdf, overlay_area, matcher,
                   intersection_df, remaining, buckets, stage_in, result, export>>

\* buckets[asset_name.value] = matcher.run() of another asset type returns
OtherAssetReturns ==
    /\ InLoop /\ pc = "create_buckets"
    /\ ~Followed
    /\ controller' = [controller EXCEPT !.buckets = Append(@, AssetName),
                                        !.pos = @ + 1]
    /\ UNCHANGED <<gisib_gdf, bgt_gdf, overlay_area, matcher, pc, intersection_df,
                   remaining, buckets, stage_in, result, export>>

\* matcher.run() of another asset type raises: create_buckets has no handler
OtherAssetRaises ==
    /\ InLoop /\ pc = "create_buckets"
    /\ ~Followed
    /\ controller' = [controller EXCEPT !.status = "raised"]
    /\ UNCHANGED <<gisib_gdf, bgt_gdf, overlay_area, matcher, pc, intersection_df,
                   remaining, buckets, stage_in, result, export>>

\* buckets[asset_name.value] = matcher.run() of the followed run
StoreRun ==
    /\ InLoop /\ pc = "returned"
    /\ controller' = [controller EXCEPT !.buckets = Append(@, AssetName),
                                        !.pos = @ + 1]
    /\ pc' = "create_buckets"
    /\ UNCHANGED <<gisib_gdf, bgt_gdf, overlay_area, matcher, intersection_df,
                   remaining, buckets, stage_in, result, export>>

\* the followed run raised: the exception leaves create_buckets
RunRaises ==
    /\ InLoop /\ pc \in {"AssertionError", "IntCastingNaNError"}
    /\ controller' = [controller EXCEPT !.status = "raised"]
    /\ UNCHANGED <<gisib_gdf, bgt_gdf, overlay_area, matcher, pc, intersection_df,
                   remaining, buckets, stage_in, result, export>>

\* self.created_buckets = buckets; return buckets
CreateBucketsReturn ==
    /\ controller.status = "looping"
    /\ controller.pos = Len(ASSET_MATCHER_CLASSES) + 1
    /\ controller' = [controller EXCEPT !.created_buckets = <<controller.buckets>>,
                                        !.status = "returned"]
    /\ UNCHANGED <<gisib_gdf, bgt_gdf, overlay_area, matcher, pc, intersection_df,
                   remaining, buckets, stage_in, result, export>>

NextBatch ==
    \/ AssetAbsent
    \/ Construct
    \/ OtherAssetReturns
    \/ OtherAssetRaises
    \/ StoreRun
    \/ RunRaises
    \/ CreateBucketsReturn
    \/ Preprocess
    \/ NoMatches
    \/ Select1To1
    \/ Select1BgtToNGisib
    \/ Select1GisibToNBgt
    \/ GeomMatch
    \/ GeomMatchAssertionError
    \/ AdditionalMatches
    \/ ClipMatch
    \/ ClipMatchError
    \/ Return

SpecBatch == InitBatch /\ [][NextBatch]_vars

(***************************************************************************)
(* The overlap engine and the first two buckets of MatcherBase.run, one    *)
(* call of preprocess() per step, on inputs whose ratios fall on, just     *)
(* above and below the thresholds 0.10, 0.60 (sum), 0.75 and 0.90, and on  *)
(* polygons of area zero.                                                  *)
(***************************************************************************)
FineGisib1Areas == {0, 4, 10}
FineGisib2Areas == {10}
FineBgt1Areas == {0, 2, 4, 10}
FineBgt2Areas == {5, 10}
FineBgt1Levels == {Null, Level(MaxLevel)}

\* Intersection areas tried for a pair: none, and every listed area that fits
\* in both polygons, among them the smaller polygon itself.
FineInterChoices(ag, ab) == {i \in {0, 1, 3, 9, Min(ag, ab)} : i <= Min(ag, ab)}

InitOverlap ==
    /\ matcher = "base"
    /\ \E a1 \in FineGisib1Areas, a2 \in FineGisib2Areas,
          c1 \in FineBgt1Areas, c2 \in FineBgt2Areas, k1 \in FineBgt1Levels :
          /\ gisib_gdf = ("g1" :> GisibFeature(a1, Null, PlainProfile)
                          @@ "g2" :> GisibFeature(a2, Null, PlainProfile))
          /\ bgt_gdf = ("b1" :> BgtFeature(c1, k1, "Vegetatieobject")
                        @@ "b2" :> BgtFeature(c2, Level(0), "Vegetatieobject"))
          /\ \E i11 \in FineInterChoices(a1, c1), i12 \in FineInterChoices(a1, c2),
                i21 \in FineInterChoices(a2, c1), i22 \in FineInterChoices(a2, c2) :
                overlay_area = (<<"g1", "b1">> :> i11 @@ <<"g1", "b2">> :> i12
                                @@ <<"g2", "b1">> :> i21 @@ <<"g2", "b2">> :> i22)
    /\ pc = "constructed"
    /\ intersection_df = <<>>
    /\ remaining = <<>>
    /\ buckets = NoBuckets
    /\ stage_in = NoStageIn
    /\ result = <<>>
    /\ export = NoExport
    /\ controller = NoController

\* overlay = self.calculate_overlap_df()
CalculateOverlapDf ==
    /\ pc = "constructed"
    /\ intersection_df' = calculate_overlap_df(gisib_gdf, bgt_gdf, overlay_area)
    /\ pc' = "overlay"
    /\ UNCHANGED <<controller, gisib_gdf, bgt_gdf, overlay_area, matcher, remaining,
                   buckets, stage_in, result, export>>

\* filtered = self.filter_overlap_min_ratio(overlay)
FilterOverlapMinRatio ==
    /\ pc = "overlay"
    /\ intersection_df' = filter_overlap_min_ratio(intersection_df)
    /\ stage_in' = [stage_in EXCEPT !.overlay = intersection_df]
    /\ pc' = "filtered"
    /\ UNCHANGED <<controller, gisib_gdf, bgt_gdf, overlay_area, matcher, remaining,
                   buckets, result, export>>

\* with_counts = self.add_intersection_counts(filtered)
AddIntersectionCounts ==
    /\ pc = "filtered"
    /\ intersection_df' = add_intersection_counts(intersection_df)
    /\ pc' = "with_counts"
    /\ UNCHANGED <<controller, gisib_gdf, bgt_gdf, overlay_area, matcher, remaining,
                   buckets, stage_in, result, export>>

\* return self.get_perfect_rel_matches(with_counts)
GetPerfectRelMatches ==
    /\ pc = "with_counts"
    /\ intersection_df' = get_perfect_rel_matches(intersection_df, gisib_gdf, bgt_gdf)
    /\ stage_in' = [stage_in EXCEPT !.with_counts = intersection_df]
    /\ pc' = "preprocessed"
    /\ UNCHANGED <<controller, gisib_gdf, bgt_gdf, overlay_area, matcher, remaining,
                   buckets, result, export>>

NextOverlap ==
    \/ CalculateOverlapDf
    \/ FilterOverlapMinRatio
    \/ AddIntersectionCounts
    \/ GetPerfectRelMatches
    \/ NoMatches
    \/ Select1To1
    \/ Select1BgtToNGisib
    \/ Select1GisibToNBgt
    \/ GeomMatch
    \/ GeomMatchAssertionError
    \/ ClipMatch
    \/ ClipMatchError

SpecOverlap == InitOverlap /\ [][NextOverlap]_vars

(***************************************************************************)
(* A run and its export on inputs with three target features, so that a    *)
(* target can be the second record of one source and the first record of   *)
(* another in the same bucket.                                             *)
(***************************************************************************)
WideBgtOrder == <<"b1", "b2", "b3">>
WidePairOrder ==
    [i \in 1..(Len(GisibOrder) * Len(WideBgtOrder)) |->
        <<GisibOrder[((i - 1) \div Len(WideBgtOrder)) + 1],
          WideBgtOrder[((i - 1) % Len(WideBgtOrder)) + 1]>>]

WideGisib1Areas == {4, 10, 20}
WideGisib2Areas == {20}
WideBgtAreas == {10}
WideBgt1Levels == {Null, Level(0)}
\* Intersection areas tried for a pair: disjoint, or the smaller polygon lying
\* wholly inside the larger one.
WideInterChoices(ag, ab) == {0, Min(ag, ab)}

InitWide ==
    /\ matcher = "base"
    /\ \E a1 \in WideGisib1Areas, a2 \in WideGisib2Areas, c \in WideBgtAreas,
          k1 \in WideBgt1Levels :
          /\ gisib_gdf = ("g1" :> GisibFeature(a1, Null, PlainProfile)
                          @@ "g2" :> GisibFeature(a2, Null, PlainProfile))
          /\ bgt_gdf = ("b1" :> BgtFeature(c, k1, "Vegetatieobject")
                        @@ "b2" :> BgtFeature(c, Level(0), "Vegetatieobject")
                        @@ "b3" :> BgtFeature(c, Level(0), "Vegetatieobject"))
          /\ overlay_area \in
                {f \in [Range(WidePairOrder) -> {0} \cup WideGisib1Areas \cup WideBgtAreas] :
                    \A p \in Range(WidePairOrder) : f[p] \in WideInterChoices(
                        IF p[1] = "g1" THEN a1 ELSE a2, c)}
    /\ pc = "constructed"
    /\ intersection_df = <<>>
    /\ remaining = <<>>
    /\ buckets = NoBuckets
    /\ stage_in = NoStageIn
    /\ result = <<>>
    /\ export = NoExport
    /\ controller = NoController

\* MatcherBase.preprocess on the three-target inputs
PreprocessWide ==
    /\ pc = "constructed"
    /\ LET pairs == SelectSeq(WidePairOrder,
                        LAMBDA p : /\ p[1] \in Range(SelfGisib(gisib_gdf))
                                   /\ overlay_area[p] > 0)
           overlay == [i \in 1..Len(pairs) |->
                          OverlayRow(pairs[i][1], pairs[i][2], gisib_gdf, bgt_gdf,
                                     overlay_area)]
           filtered == filter_overlap_min_ratio(overlay)
           with_counts == add_intersection_counts(filtered)
       IN intersection_df' = get_perfect_rel_matches(with_counts, gisib_gdf, bgt_gdf)
    /\ pc' = "preprocessed"
    /\ UNCHANGED <<controller, gisib_gdf, bgt_gdf, overlay_area, matcher, remaining, buckets,
                   stage_in, result, export>>

NextWide ==
    \/ PreprocessWide
    \/ NoMatches
    \/ Select1To1
    \/ Select1BgtToNGisib
    \/ Select1GisibToNBgt
    \/ GeomMatch
    \/ GeomMatchAssertionError
    \/ ClipMatch
    \/ ClipMatchError
    \/ Return
    \/ ProcessAndExport

SpecWide == InitWide /\ [][NextWide]_vars

(***************************************************************************)
(* Properties of the classifier.                                           *)
(***************************************************************************)
\* C1 (as stated): when run() returns, every source id of the input source
\* collection appears in exactly one returned bucket, and the union of the
\* buckets' source ids is the full input source id set.
C1_AsStated ==
    pc = "returned" =>
        /\ \A g \in GUIDS :
              Cardinality({i \in 1..Len(result) : g \in Ids(result[i][2])}) = 1
        /\ UNION {Ids(result[i][2]) : i \in 1..Len(result)} = GUIDS

\* C1 (amended): when run() returns, every source id whose TYPE is not a skip
\* type appears in exactly one returned bucket, and the union of the buckets'
\* source ids is exactly the set of those source ids; a source feature of a
\* skip type appears in no bucket.
C1_Partition ==
    pc = "returned" =>
        LET working == {g \in GUIDS : gisib_gdf[g].TYPE \notin SKIP_TYPES}
        IN /\ \A g \in working :
                 Cardinality({i \in 1..Len(result) : g \in Ids(result[i][2])}) = 1
           /\ UNION {Ids(result[i][2]) : i \in 1..Len(result)} = working

\* a returned run with a skipped source feature, one source in a match bucket
C1_Witness ==
    /\ pc = "returned"
    /\ gisib_gdf["g2"].TYPE \in SKIP_TYPES
    /\ overlay_area[<<"g2", "b2">>] > 0
    /\ "g1" \in Ids(Frame(result, "geom_75_match"))
    /\ Len(Frame(result, "geom_75_match")) < Len(stage_in.geom)

\* C2: the stages run in the order geom_1_to_1, merge/split, gisib_split,
\* geom_75_match, (pavement) geom_overlap_150_match, clip_match, remaining; the
\* input of a stage holds no record of a source id that an earlier bucket
\* consumed, so a source id that qualifies for two buckets lands in the earlier
\* one: a pavement source id with a ratio-sum > 1.5 record and a clip record in
\* the input of the 150 stage is in geom_overlap_150_match, not in clip_match.
C2_Waterfall ==
    LET b1 == Ids(buckets.bucket1)
        b23 == b1 \cup Ids(buckets.bucket2) \cup Ids(buckets.bucket3)
        b4 == b23 \cup Ids(buckets.bucket4)
        b5 == b4 \cup Ids(buckets.bucket5)
        b6 == IF matcher = "vrh" THEN b5 \cup Ids(buckets.bucket6) ELSE b5
        clip == IF matcher = "vrh" THEN buckets.bucket7 ELSE buckets.bucket6
        is150(r) == Gt(Plus(r.overlap_gisib, r.overlap_bgt), OVERLAP_SUM_RATIO)
        isClip(r) == Lt(r.overlap_bgt, CLIP_BGT_RATIO) /\ Gt(r.overlap_gisib, CLIP_GISIB_RATIO)
    IN /\ Ids(buckets.bucket0) \cap Ids(intersection_df) = {}
       /\ Ids(stage_in.merge) \cap b1 = {}
       /\ Ids(stage_in.split) \cap b23 = {}
       /\ Ids(stage_in.geom) \cap b4 = {}
       /\ Ids(stage_in.overlap150) \cap b5 = {}
       /\ Ids(stage_in.clip) \cap b6 = {}
       /\ pc \in {"clip", "returned", "exported"} =>
             /\ Ids(remaining) \cap (b6 \cup Ids(clip)) = {}
             /\ matcher = "vrh" =>
                   \A g \in Ids(stage_in.overlap150) :
                       (/\ \E r \in Range(stage_in.overlap150) : r.GUID = g /\ is150(r)
                        /\ \E r \in Range(stage_in.overlap150) : r.GUID = g /\ isClip(r))
                       => g \in Ids(buckets.bucket6) /\ g \notin Ids(clip)
       /\ pc \in {"returned", "exported"} =>
             [i \in 1..Len(result) |-> result[i][1]] =
                 IF matcher = "vrh"
                 THEN <<"no_matches", "geom_1_to_1", "bgt_split", "gisib_merge",
                        "gisib_split", "geom_75_match", "geom_overlap_150_match",
                        "clip_match", "remaining">>
                 ELSE <<"no_matches", "geom_1_to_1", "bgt_split", "gisib_merge",
                        "gisib_split", "geom_75_match", "clip_match", "remaining">>

\* a pavement run in which g1 has a ratio-sum > 1.5 record and a clip record
C2_Witness ==
    /\ pc = "returned"
    /\ matcher = "vrh"
    /\ \E r \in Range(stage_in.overlap150) :
          /\ r.GUID = "g1"
          /\ Gt(Plus(r.overlap_gisib, r.overlap_bgt), OVERLAP_SUM_RATIO)
    /\ \E r \in Range(stage_in.overlap150) :
          /\ r.GUID = "g1"
          /\ Lt(r.overlap_bgt, CLIP_BGT_RATIO)
          /\ Gt(r.overlap_gisib, CLIP_GISIB_RATIO)
    /\ "g1" \in Ids(Frame(result, "geom_overlap_150_match"))

\* C3 (as stated): the bucket returned as "gisib_merge" holds exactly the
\* records of the source ids of a mergeable 1-target:N-source group, the bucket
\* returned as "bgt_split" holds exactly the records of the in-band groups that
\* are not mergeable, and "remove" is the mode configured for the bucket that
\* holds the mergeable records.
C3_AsStated ==
    pc = "returned" =>
        LET grouped == build_bgt_gisib_grouped(stage_in.merge, gisib_gdf)
            inband == {x \in grouped :
                          x.guid_count > 1 /\ x.overlap_bgt10 /\ x.overlap_gisib10}
            mergeable == {x \in inband : /\ x.ONDERHOUDSPLICHTIGE = 1
                                         /\ x.TYPE_GEDETAILLEERD = 1
                                         /\ x.BEHEERDER_GEDETAILLEERD < 2}
            merge_ids == UNION {Range(x.guid_list) : x \in mergeable}
            split_ids == UNION {Range(x.guid_list) : x \in inband} \ merge_ids
        IN /\ Frame(result, "gisib_merge") =
                 SelectSeq(stage_in.merge, LAMBDA r : r.GUID \in merge_ids)
           /\ Frame(result, "bgt_split") =
                 SelectSeq(stage_in.merge, LAMBDA r : r.GUID \in split_ids)
           /\ \A i \in 1..Len(result) :
                 (/\ Len(result[i][2]) > 0
                  /\ Ids(result[i][2]) \subseteq merge_ids
                  /\ result[i][1] # "no_matches")
                 => BUCKET_MATCH_CONFIG(result[i][1]) = "remove"

\* C4: if more than one record of a source id in the input of the
\* geom_75_match stage has both ratios > 0.75, run() fails with an
\* AssertionError and returns no mapping; when the stage completes, the bucket
\* holds exactly the input records with both ratios > 0.75, at most one per
\* source id, and no record of those source ids stays in the remaining frame.
C4_GeomMatch ==
    LET pred(r) == /\ Gt(r.overlap_bgt, GEOM_MATCH_RATIO)
                   /\ Gt(r.overlap_gisib, GEOM_MATCH_RATIO)
        hits(g) == {i \in 1..Len(stage_in.geom) :
                       stage_in.geom[i].GUID = g /\ pred(stage_in.geom[i])}
        multi == \E g \in GUIDS : Cardinality(hits(g)) > 1
        completed == pc \in {"bucket5", "bucket6", "clip", "IntCastingNaNError",
                             "returned", "exported"}
    IN /\ pc = "AssertionError" => multi /\ result = <<>> /\ ~export.done
       /\ completed =>
             /\ ~multi
             /\ buckets.bucket5 = SelectSeq(stage_in.geom, pred)
             /\ \A g \in GUIDS : Cardinality(hits(g)) <= 1
             /\ Ids(remaining) \cap Ids(buckets.bucket5) = {}
       /\ pc = "bucket5" =>
             remaining = SelectSeq(stage_in.geom,
                                LAMBDA r : r.GUID \notin Ids(buckets.bucket5))

\* the run that failed: two records of one source id passed the predicate
C4_Witness ==
    /\ pc = "AssertionError"
    /\ \E g \in GUIDS :
          Cardinality({i \in 1..Len(stage_in.geom) :
              /\ stage_in.geom[i].GUID = g
              /\ Gt(stage_in.geom[i].overlap_bgt, GEOM_MATCH_RATIO)
              /\ Gt(stage_in.geom[i].overlap_gisib, GEOM_MATCH_RATIO)}) = 2

(***************************************************************************)
(* Properties of the processor.                                            *)
(***************************************************************************)
\* C5 (as stated): in remove mode, for every target id of the bucket exactly
\* one pairing is kept, the one whose source feature has the largest
\* source-geometry area among the records of that target id, and the source id
\* of every other record of that target id is emitted as a Remove.
C5_AsStated ==
    \A c \in Range(export.calls) :
        c.mode = "remove" =>
            \A b \in {r.LOKAALID : r \in Range(c.df)} :
                LET rows == {r \in Range(c.df) : r.LOKAALID = b}
                    keeps == {k \in Range(c.result_df) : k.LOKAALID = b}
                IN /\ Cardinality(keeps) = 1
                   /\ \A k \in keeps : \A r \in rows :
                         gisib_gdf[k.GUID].area >= gisib_gdf[r.GUID].area
                   /\ \A r \in rows :
                         (\A k \in keeps : k.GUID # r.GUID)
                         => [GUID |-> r.GUID] \in Range(c.remove)

\* C6 (as stated): in remove mode the number of Remove actions plus the number
\* of kept pairs equals the number of overlap records of the bucket.
C6_AsStated ==
    \A c \in Range(export.calls) :
        c.mode = "remove" => Len(c.remove) + Len(c.result_df) = Len(c.df)

\* C7 (as stated): in add mode, for every source id of the bucket the
\* ChangeGeometry record is the record with the largest target-geometry area
\* among the records of that source id, and every other record of the source id
\* yields exactly one Add record with that record's target geometry.
C7_AsStated ==
    \A c \in Range(export.calls) :
        c.mode = "add" =>
            \A g \in Ids(c.df) :
                LET rows == {r \in Range(c.df) : r.GUID = g}
                    cg == {x \in Range(c.change_geometry) : x.GUID = g}
                IN /\ Cardinality(cg) = 1
                   /\ \A x \in cg : \A r \in rows :
                         bgt_gdf[x.LOKAALID].area >= bgt_gdf[r.LOKAALID].area
                   /\ \A b \in LOKAALIDS :
                         Cardinality({k \in 1..Len(c.add) :
                             /\ c.add[k].LOKAALID = b
                             /\ c.add[k].geometry = bgt_gdf[b].area}) =
                         Cardinality({r \in Range(c.df) :
                             /\ r.LOKAALID = b
                             /\ \A x \in Range(c.change_geometry) :
                                   x.GUID = r.GUID => x.LOKAALID # b})

\* C8: in add mode the number of ChangeGeometry records equals the number of
\* distinct source ids of the bucket, and the number of Add records equals the
\* number of bucket records that were not retained.
C8_AddCounts ==
    \A c \in Range(export.calls) :
        c.mode = "add" =>
            /\ Len(c.change_geometry) = Cardinality(Ids(c.df))
            /\ Len(c.add) = Len(c.df) - Len(c.change_geometry)

\* an add-mode call on a bucket with two source ids and four records
C8_Witness ==
    \E c \in Range(export.calls) :
        /\ c.mode = "add"
        /\ Cardinality(Ids(c.df)) = 2
        /\ Len(c.df) = 4
        /\ Len(c.add) = 2

\* C9: every Add record of a run carries exactly one generated identifier: as
\* many identifiers are generated as there are Add records, the identifiers are
\* pairwise distinct within the run, and each is "{" + an uppercase UUID + "}".
C9_NewGuids ==
    /\ \A c \in Range(export.calls) :
          /\ Len(c.new_guid_values) = Len(c.add)
          /\ \A k \in 1..Len(c.add) : c.add[k].GUID = c.new_guid_values[k]
    /\ \A k \in 1..Len(export.add) :
          export.add[k].GUID \in
              {"{" \o UUID4_STR_UPPER[i] \o "}" : i \in 1..Len(UUID4_STR_UPPER)}
    /\ \A i, j \in 1..Len(export.add) :
          i # j => export.add[i].GUID # export.add[j].GUID

\* an export with two Add records
C9_Witness ==
    /\ export.done
    /\ Len(export.add) = 2
    /\ export.add[1].GUID # export.add[2].GUID

\* C10 (as stated): a source feature of the working set is in no_matches if and
\* only if no target polygon intersects it with a non-empty geometry.
C10_AsStated ==
    pc \notin {"constructed", "preprocessed"} =>
        \A g \in Range(SelfGisib(gisib_gdf)) :
            g \in Ids(buckets.bucket0) <=>
                \A b \in LOKAALIDS : overlay_area[<<g, b>>] = 0

\* C11 (as stated): after a returned run of GroenobjectenMatcher, a hedge-type
\* source feature that has an overlap record with overlap_gisib > 0.90 against a
\* vegetation target is found only in buckets of the accepted (automatic) set,
\* never in clip_match, remaining or another bucket outside that set.
C11_AsStated ==
    (matcher = "groen" /\ pc = "returned") =>
        \A g \in GUIDS :
            (/\ gisib_gdf[g].TYPE = "Haag"
             /\ \E b \in LOKAALIDS :
                    /\ bgt_gdf[b].ObjectType = "Vegetatieobject"
                    /\ overlay_area[<<g, b>>] * 100 > HAAG_RATIO * gisib_gdf[g].area)
            => \A name \in Names(result) :
                    g \in Ids(Frame(result, name)) => name \in AUTOMATIC_BUCKETS

\* C12 (as stated): in the geom_overlap_150_match bucket of the pavement matcher
\* every source id has at most one record, and a source id with remaining
\* records of ratio sum > 1.5 is represented by the one with the smallest sum.
C12_AsStated ==
    (matcher = "vrh" /\ pc = "bucket6") =>
        LET sum(r) == Plus(r.overlap_gisib, r.overlap_bgt)
        IN \A g \in Ids(stage_in.overlap150) :
              LET cand == SelectSeq(stage_in.overlap150,
                              LAMBDA r : r.GUID = g /\ Gt(sum(r), OVERLAP_SUM_RATIO))
                  got == SelectSeq(buckets.bucket6, LAMBDA r : r.GUID = g)
              IN /\ Len(got) <= 1
                 /\ Len(cand) > 0 =>
                        /\ Len(got) = 1
                        /\ \A i \in 1..Len(cand) : ~LessRatio(sum(cand[i]), sum(got[1]))

\* C13 (as stated): when the matcher run of one asset type fails (geom_75_match
\* integrity violation or another error of the run), create_buckets goes on to
\* the other asset types and ends with a mapping that holds the bucket mapping
\* of every asset type whose run returned.
C13_AsStated ==
    (pc \in {"AssertionError", "IntCastingNaNError"} /\ controller.status # "looping") =>
        /\ controller.pos = Len(ASSET_MATCHER_CLASSES) + 1
        /\ Len(controller.created_buckets) = 1
        /\ \A i \in 1..Len(controller.buckets) :
              controller.buckets[i] \in Range(controller.created_buckets[1])

\* C14: a bucket name without an entry in BUCKET_MATCH_CONFIG yields no match,
\* remove, add or change-geometry row, the export does not fail, and every
\* configured bucket of the dict, before or after it, is processed: the export
\* equals the export of the same dict without the unconfigured names.
C14_Unconfigured ==
    pc = "exported" =>
        LET unconfigured(name) == BUCKET_MATCH_CONFIG(name) = "none"
            configured == SelectSeq(export.bucket_dict, LAMBDA name : ~unconfigured(name))
            without == SelectSeq(result,
                           LAMBDA e : e[1] \in Range(configured) /\ Len(e[2]) > 0)
            ids(name) == Ids(Frame(result, name))
        IN /\ export.done
           /\ [i \in 1..Len(export.calls) |-> export.calls[i].bucket] = configured
           /\ \A name \in Range(export.bucket_dict) :
                 unconfigured(name) =>
                    /\ name \in Range(export.skipped)
                    /\ \A i \in 1..Len(export.calls) : export.calls[i].bucket # name
                    /\ ids(name) \cap Ids(export.match) = {}
                    /\ ids(name) \cap Ids(export.remove) = {}
                    /\ ids(name) \cap Ids(export.change_geometry) = {}
           /\ \E uuid4 \in Uuid4Draws(Len(export.add)) :
                 LET alone == process_and_export_per_asset_mode(
                                  without, gisib_gdf, bgt_gdf, uuid4)
                 IN /\ alone.match = export.match
                    /\ alone.remove = export.remove
                    /\ alone.add = export.add
                    /\ alone.change_geometry = export.change_geometry

\* an export whose dict holds the unconfigured name no_matches before the
\* configured bucket gisib_split, which yields match and add rows
C14_Witness ==
    /\ pc = "exported"
    /\ export.done
    /\ export.skipped = <<"no_matches">>
    /\ \E i \in 1..Len(export.calls) : export.calls[i].bucket = "gisib_split"
    /\ Len(export.match) > 0
    /\ Len(export.add) > 0

\* C15 (as stated): every overlap record of the overlay has 0 < overlap_gisib <= 1
\* and 0 < overlap_bgt <= 1, and a source or target feature of area zero makes
\* the run end with an error instead of being carried through the overlap engine.
C15_AsStated ==
    /\ \A i \in 1..Len(intersection_df) :
          LET r == intersection_df[i]
          IN /\ r.overlap_gisib.d > 0 /\ r.overlap_bgt.d > 0
             /\ 0 < r.overlap_gisib.n /\ r.overlap_gisib.n <= r.overlap_gisib.d
             /\ 0 < r.overlap_bgt.n /\ r.overlap_bgt.n <= r.overlap_bgt.d
    /\ (\/ \E g \in GUIDS : gisib_gdf[g].area = 0
        \/ \E b \in LOKAALIDS : bgt_gdf[b].area = 0)
       => pc \in {"constructed", "ValueError"}

\* C16: no source feature whose TYPE is in the skip-type set is in any bucket of
\* the run (no_matches and remaining included), at any stage and in the
\* returned dict, and no such feature has a row in the frame preprocess returns.
C16_SkipTypes ==
    \A g \in GUIDS :
        gisib_gdf[g].TYPE \in SKIP_TYPES =>
            /\ g \notin Ids(intersection_df)
            /\ g \notin Ids(remaining)
            /\ \A k \in DOMAIN buckets : g \notin Ids(buckets[k])
            /\ \A name \in Names(result) : g \notin Ids(Frame(result, name))

\* a returned run with a skip-type source feature that intersects a target and
\* a source feature of another type in no_matches
C16_Witness ==
    /\ pc = "returned"
    /\ gisib_gdf["g2"].TYPE \in SKIP_TYPES
    /\ overlay_area[<<"g2", "b1">>] = gisib_gdf["g2"].area
    /\ Ids(Frame(result, "no_matches")) = {"g1"}

C19_OneToOne ==
    pc = "bucket1" =>
        LET qualifies(r) ==
                LET x == r.area
                    a == bgt_gdf[r.LOKAALID].area
                    b == gisib_gdf[r.GUID].area
                IN /\ r.lokaalids_per_guid = 1
                   /\ r.guids_per_lokaalid = 1
                   /\ 4 * x > 3 * a
                   /\ 4 * x > 3 * b
            others(r) == ~qualifies(r)
        IN /\ buckets.bucket1 = SelectSeq(intersection_df, qualifies)
           /\ remaining = SelectSeq(intersection_df, others)

\* a 1:1 pair whose source ratio is exactly 0.75 (target ratio at least 0.75) stays in the remaining records
\* while another pair is placed in the bucket
C19_Witness ==
    /\ pc = "bucket1"
    /\ Len(buckets.bucket1) > 0
    /\ \E i \in 1..Len(remaining) :
          LET r == remaining[i]
          IN /\ r.lokaalids_per_guid = 1
             /\ r.guids_per_lokaalid = 1
             /\ r.overlap_gisib.n * 4 = r.overlap_gisib.d * 3
             /\ Ge(r.overlap_bgt, GEOM_1_TO_1_RATIO)

\* C20: on the records get_perfect_rel_matches returns, perfect_match is set
\* exactly when both overlap ratios exceed 0.90 and rel_match (the elevation
\* match) exactly when the elevations of source and target, null read as 0,
\* are equal; for every source id with at least one record that has both
\* flags, the result holds exactly that id's both-flag records and none of
\* its other records.
C20_PerfectRel ==
    pc = "preprocessed" =>
        LET perfect(r) ==
                LET x == r.area
                    a == bgt_gdf[r.LOKAALID].area
                    b == gisib_gdf[r.GUID].area
                IN 10 * x > 9 * a /\ 10 * x > 9 * b
            hoogte(h) == IF Len(h) = 0 THEN 0 ELSE h[1]
            elevation(r) ==
                hoogte(gisib_gdf[r.GUID].hl) = hoogte(bgt_gdf[r.LOKAALID].hl)
            input == stage_in.with_counts
            both(g) == {IdPair(r) : r \in {x \in Range(input) :
                                              x.GUID = g /\ perfect(x) /\ elevation(x)}}
        IN /\ \A i \in 1..Len(intersection_df) :
                 LET r == intersection_df[i]
                 IN /\ r.perfect_match = perfect(r)
                    /\ r.rel_match = elevation(r)
           /\ \A g \in Ids(input) :
                 both(g) # {} =>
                    {IdPair(r) : r \in {x \in Range(intersection_df) : x.GUID = g}}
                        = both(g)

\* a source id has a record with both flags set, which is returned, and
\* another record, with a ratio of exactly 0.90 or another elevation, which
\* is dropped
C20_Witness ==
    /\ pc = "preprocessed"
    /\ \E i \in 1..Len(intersection_df) :
          /\ intersection_df[i].perfect_match
          /\ intersection_df[i].rel_match
          /\ \E j \in 1..Len(stage_in.with_counts) :
                /\ stage_in.with_counts[j].GUID = intersection_df[i].GUID
                /\ stage_in.with_counts[j].LOKAALID # intersection_df[i].LOKAALID
                /\ Cardinality({k \in 1..Len(intersection_df) :
                                    intersection_df[k].GUID = intersection_df[i].GUID}) = 1

\* C21 (as stated): for a source id without a record that has both flags,
\* get_perfect_rel_matches drops records of the id if and only if the id has
\* both an elevation-matching and a non-matching record and more than one
\* perfect-match record; then exactly its perfect-match records are returned,
\* and in every other case all of its records are returned.
C21_AsStated ==
    pc = "preprocessed" =>
        LET perfect(r) ==
                LET x == r.area
                    a == bgt_gdf[r.LOKAALID].area
                    b == gisib_gdf[r.GUID].area
                IN 10 * x > 9 * a /\ 10 * x > 9 * b
            hoogte(h) == IF Len(h) = 0 THEN 0 ELSE h[1]
            elevation(r) ==
                hoogte(gisib_gdf[r.GUID].hl) = hoogte(bgt_gdf[r.LOKAALID].hl)
            input == stage_in.with_counts
            of(df, g) == {IdPair(r) : r \in {x \in Range(df) : x.GUID = g}}
            perfect_of(g) == {IdPair(r) : r \in {x \in Range(input) :
                                                    x.GUID = g /\ perfect(x)}}
            both_kinds(g) == /\ \E r \in Range(input) : r.GUID = g /\ elevation(r)
                             /\ \E r \in Range(input) : r.GUID = g /\ ~elevation(r)
        IN \A g \in Ids(input) :
              (~\E r \in Range(input) : r.GUID = g /\ perfect(r) /\ elevation(r))
              => IF both_kinds(g) /\ Cardinality(perfect_of(g)) > 1
                 THEN /\ of(intersection_df, g) = perfect_of(g)
                      /\ of(intersection_df, g) # of(input, g)
                 ELSE of(intersection_df, g) = of(input, g)

\* C22: select_1_bgt_to_n_gisib_overlap5_matches splits its input three ways by
\* source id. A (target id, source elevation) group is in band when it has more
\* than one member, its summed overlap_bgt lies in the band and its mean
\* overlap_gisib lies in the band; it is mergeable when its members also agree
\* on ONDERHOUDSPLICHTIGE, TYPE_GEDETAILLEERD and BEHEERDER_GEDETAILLEERD.
\* merge = the records of the ids in a mergeable group, split = those of the
\* ids in an in-band group but in no mergeable one, remaining = the others; the
\* three are disjoint by source id, together they are the input, and no member
\* of an in-band group is left in remaining.
C22_MergeSplit ==
    pc = "bucket3" =>
        LET input == stage_in.merge
            hoogte(g) == IF Len(gisib_gdf[g].hl) = 0 THEN 0 ELSE gisib_gdf[g].hl[1]
            x(g, b) == overlay_area[<<g, b>>]
            has(g, b) == \E r \in Range(input) : r.GUID = g /\ r.LOKAALID = b
            \* with two source features a group of more than one member is the pair
            in_band(g, h, b) ==
                /\ g # h /\ has(g, b) /\ has(h, b) /\ hoogte(g) = hoogte(h)
                /\ 10 * (x(g, b) + x(h, b)) > 9 * bgt_gdf[b].area
                /\ 10 * (x(g, b) + x(h, b)) < 11 * bgt_gdf[b].area
                /\ 10 * (x(g, b) * gisib_gdf[h].area + x(h, b) * gisib_gdf[g].area)
                      > 9 * 2 * gisib_gdf[g].area * gisib_gdf[h].area
                /\ 10 * (x(g, b) * gisib_gdf[h].area + x(h, b) * gisib_gdf[g].area)
                      < 11 * 2 * gisib_gdf[g].area * gisib_gdf[h].area
            attributes(g, h) ==
                /\ gisib_gdf[g].ONDERHOUDSPLICHTIGE = gisib_gdf[h].ONDERHOUDSPLICHTIGE
                /\ gisib_gdf[g].TYPE_GEDETAILLEERD = gisib_gdf[h].TYPE_GEDETAILLEERD
                /\ gisib_gdf[g].BEHEERDER_GEDETAILLEERD = gisib_gdf[h].BEHEERDER_GEDETAILLEERD
            grouped == {g \in GUIDS : \E h \in GUIDS, b \in LOKAALIDS : in_band(g, h, b)}
            merge == {g \in GUIDS : \E h \in GUIDS, b \in LOKAALIDS :
                                        in_band(g, h, b) /\ attributes(g, h)}
            in_merge(r) == r.GUID \in merge
            in_split(r) == r.GUID \in grouped \ merge
            in_rest(r) == r.GUID \notin grouped
        IN /\ buckets.bucket2 = SelectSeq(input, in_merge)
           /\ buckets.bucket3 = SelectSeq(input, in_split)
           /\ remaining = SelectSeq(input, in_rest)
           /\ Ids(buckets.bucket2) \cap Ids(buckets.bucket3) = {}
           /\ Ids(buckets.bucket2) \cap Ids(remaining) = {}
           /\ Ids(buckets.bucket3) \cap Ids(remaining) = {}
           /\ Range(buckets.bucket2) \cup Range(buckets.bucket3) \cup Range(remaining)
                 = Range(input)
           /\ Len(buckets.bucket2) + Len(buckets.bucket3) + Len(remaining) = Len(input)
           /\ grouped \cap Ids(remaining) = {}

\* an in-band pair that fails the attribute test: both source ids are in the
\* split bucket, with a record on another target as well, and none in remaining
C22_Witness ==
    /\ pc = "bucket3"
    /\ Ids(buckets.bucket3) = GUIDS
    /\ Len(buckets.bucket3) > Cardinality(GUIDS)
    /\ gisib_gdf["g1"].BEHEERDER_GEDETAILLEERD # gisib_gdf["g2"].BEHEERDER_GEDETAILLEERD
    /\ buckets.bucket2 = <<>>

\* C23: the gisib_split bucket holds exactly all stage-input records of every
\* source id that has a (source id, target elevation) group with more than one
\* target id, a summed overlap_gisib in the band and a mean overlap_bgt in the
\* band; a source whose two stage-input records are on targets of the same
\* elevation that lie inside it and whose areas sum to its own area is in the
\* bucket with both records.
C23_GisibSplit ==
    pc = "bucket4" =>
        LET input == stage_in.split
            hoogte(b) == IF Len(bgt_gdf[b].hl) = 0 THEN 0 ELSE bgt_gdf[b].hl[1]
            x(g, b) == overlay_area[<<g, b>>]
            has(g, b) == \E r \in Range(input) : r.GUID = g /\ r.LOKAALID = b
            \* with two target features a group of more than one target is the pair
            in_band(g, b, c) ==
                /\ b # c /\ has(g, b) /\ has(g, c) /\ hoogte(b) = hoogte(c)
                /\ 10 * (x(g, b) + x(g, c)) > 9 * gisib_gdf[g].area
                /\ 10 * (x(g, b) + x(g, c)) < 11 * gisib_gdf[g].area
                /\ 10 * (x(g, b) * bgt_gdf[c].area + x(g, c) * bgt_gdf[b].area)
                      > 9 * 2 * bgt_gdf[b].area * bgt_gdf[c].area
                /\ 10 * (x(g, b) * bgt_gdf[c].area + x(g, c) * bgt_gdf[b].area)
                      < 11 * 2 * bgt_gdf[b].area * bgt_gdf[c].area
            split == {g \in GUIDS : \E b \in LOKAALIDS, c \in LOKAALIDS : in_band(g, b, c)}
            in_split(r) == r.GUID \in split
            in_rest(r) == r.GUID \notin split
            example(g, b, c) ==
                /\ b # c /\ has(g, b) /\ has(g, c) /\ hoogte(b) = hoogte(c)
                /\ x(g, b) = bgt_gdf[b].area /\ x(g, c) = bgt_gdf[c].area
                /\ bgt_gdf[b].area + bgt_gdf[c].area = gisib_gdf[g].area
        IN /\ buckets.bucket4 = SelectSeq(input, in_split)
           /\ remaining = SelectSeq(input, in_rest)
           /\ \A g \in GUIDS, b \in LOKAALIDS, c \in LOKAALIDS :
                 example(g, b, c) =>
                    \A t \in {b, c} :
                        \E r \in Range(buckets.bucket4) : r.GUID = g /\ r.LOKAALID = t

\* the example: a source of area 13 covering two targets of areas 5 and 8 with
\* the same elevation is in gisib_split with both records
C23_Witness ==
    /\ pc = "bucket4"
    /\ \E g \in GUIDS :
          /\ gisib_gdf[g].area = bgt_gdf["b1"].area + bgt_gdf["b2"].area
          /\ overlay_area[<<g, "b1">>] = bgt_gdf["b1"].area
          /\ overlay_area[<<g, "b2">>] = bgt_gdf["b2"].area
          /\ Cardinality({i \in 1..Len(buckets.bucket4) : buckets.bucket4[i].GUID = g}) = 2

\* C24 (as stated): the band of the group tests is inclusive at its low end and
\* exclusive at its high end, 0.90 <= ratio < 1.10: a source id is in
\* gisib_merge or bgt_split exactly when it is in a (target id, source
\* elevation) pair group whose summed overlap_bgt and mean overlap_gisib lie in
\* that window, and in gisib_split exactly when it has a (source id, target
\* elevation) pair group whose summed overlap_gisib and mean overlap_bgt lie in
\* it, so that an aggregated ratio of exactly 0.90 is inside the band.
C24_AsStated ==
    LET x(g, b) == overlay_area[<<g, b>>]
        has(df, g, b) == \E r \in Range(df) : r.GUID = g /\ r.LOKAALID = b
        hoogte(h) == IF Len(h) = 0 THEN 0 ELSE h[1]
        window(n, d) == 10 * n >= 9 * d /\ 10 * n < 11 * d
        bgt_group(df, g, h, b) ==
            /\ g # h /\ has(df, g, b) /\ has(df, h, b)
            /\ hoogte(gisib_gdf[g].hl) = hoogte(gisib_gdf[h].hl)
            /\ window(x(g, b) + x(h, b), bgt_gdf[b].area)
            /\ window(x(g, b) * gisib_gdf[h].area + x(h, b) * gisib_gdf[g].area,
                      2 * gisib_gdf[g].area * gisib_gdf[h].area)
        gisib_group(df, g, b, c) ==
            /\ b # c /\ has(df, g, b) /\ has(df, g, c)
            /\ hoogte(bgt_gdf[b].hl) = hoogte(bgt_gdf[c].hl)
            /\ window(x(g, b) + x(g, c), gisib_gdf[g].area)
            /\ window(x(g, b) * bgt_gdf[c].area + x(g, c) * bgt_gdf[b].area,
                      2 * bgt_gdf[b].area * bgt_gdf[c].area)
    IN /\ pc = "bucket3" =>
             Ids(buckets.bucket2) \cup Ids(buckets.bucket3)
                = {g \in GUIDS : \E h \in GUIDS, b \in LOKAALIDS :
                                    bgt_group(stage_in.merge, g, h, b)}
       /\ pc = "bucket4" =>
             Ids(buckets.bucket4)
                = {g \in GUIDS : \E b \in LOKAALIDS, c \in LOKAALIDS :
                                    gisib_group(stage_in.split, g, b, c)}

C26_AsStated ==
    LET hoogte(h) == IF Len(h) = 0 THEN 0 ELSE h[1]
        equal(r) == hoogte(gisib_gdf[r.GUID].hl) = hoogte(bgt_gdf[r.LOKAALID].hl)
    IN /\ pc = "preprocessed" =>
             \A i \in 1..Len(intersection_df) :
                 intersection_df[i].rel_match = equal(intersection_df[i])
       /\ pc # "IntCastingNaNError"

\* C27 (as stated): for every record that enters the bucket waterfall,
\* lokaalids_per_guid is the number of distinct target ids among the waterfall
\* input records with its source id and guids_per_lokaalid the number of
\* distinct source ids among the waterfall input records with its target id.
C27_AsStated ==
    pc = "preprocessed" =>
        \A i \in 1..Len(intersection_df) :
            LET r == intersection_df[i]
            IN /\ r.lokaalids_per_guid =
                     Cardinality({x.LOKAALID : x \in {y \in Range(intersection_df) :
                                                         y.GUID = r.GUID}})
               /\ r.guids_per_lokaalid =
                     Cardinality({x.GUID : x \in {y \in Range(intersection_df) :
                                                     y.LOKAALID = r.LOKAALID}})

C29_AsStated ==
    pc = "exported" =>
        \A i \in 1..Len(export.calls) :
            LET c == export.calls[i]
            IN c.mode = "remove" =>
                  /\ Ids(c.remove) \cap Ids(c.result_df) = {}
                  /\ Ids(c.remove) \cap Ids(c.change_geometry) = {}

\* C30 (as stated): in 'add' mode the accepted pairs match_id_and_add returns
\* are exactly the (source id, target id) pairs of the ChangeGeometry records:
\* every source id of the bucket has exactly one accepted pair, also when a
\* target id occurs in the records of two source ids of the bucket, and no
\* accepted pair refers to a target id that is used by an Add record.
C30_AsStated ==
    pc = "exported" =>
        \A i \in 1..Len(export.calls) :
            LET c == export.calls[i]
            IN c.mode = "add" =>
                  /\ Range(c.result_df) = {IdPair(x) : x \in Range(c.change_geometry)}
                  /\ \A g \in Ids(c.df) :
                        Cardinality({k \in 1..Len(c.result_df) : c.result_df[k].GUID = g}) = 1
                  /\ \A k \in 1..Len(c.result_df), a \in 1..Len(c.add) :
                        c.result_df[k].LOKAALID # c.add[a].LOKAALID

====
